---- MODULE Spec2Model ----
(***************************************************************************)
(* Contact form, field validation and notification toasts of script.js.    *)
(*                                                                         *)
(* Strings are sequences of one-character strings, so that trim() and the  *)
(* e-mail regular expression are computed character by character.          *)
(***************************************************************************)
EXTENDS Integers, Sequences, FiniteSets, TLC

\* ------------------------------------------------------------------ bounds

\* Submissions that pass validation in one run.
MaxSubmits == 2
\* Longest string handed to validateField in SpecValidate.
MaxLen == 5
\* Notifications presented in one run of SpecNotif.
MaxNotifs == 2
\* Click events handled on notifications in one run of SpecNotif.
MaxClicks == 2
\* showNotification calls with an arbitrary type argument in one run of SpecDelay.
MaxTyped == 1
\* showTooltip calls that create an element in one run of SpecTooltip.
MaxTips == 2
\* hideTooltip calls made by event handlers in one run of SpecTooltip.
MaxHides == 2
\* The pointer or keyboard acts when a tooltip timer is due, or this many ms
\* after the last step.
TipStep == 100
\* Horizon of the clock of SpecNotif, in ms.
MaxTime == 6000
\* The user acts (presents, clicks) when a timer or tween has run, or at a
\* multiple of this many ms.
Quantum == 2000

\* ------------------------------------------------------- program constants

ErrorDelay == 5000
DefaultDelay == 3000
\* gsap duration 0.4 (seconds) of the dismiss tween, in ms.
DismissDuration == 400
\* Delay of showTooltip's reveal timer and of hideTooltip's removal timer, ms.
RevealDelay == 10
RemoveDelay == 300

MissingValue == "This field is required."
InvalidFormat == "Please enter a valid email address."
SuccessText == "Thank you! Your message has been sent."
ServerRejectedText == "Sorry, there was an error sending your message. Please try again."
NetworkFailureText == "Network error. Please try again later."
BusyLabel == "<i class=\"fas fa-spinner fa-spin\"></i> Sending..."
\* The submit button's label in the markup.
IdleLabel == "Send Message"

\* ------------------------------------------------------------------ strings

Alphabet == {"a", ".", "@", " "}

\* White space: what \s matches and trim() strips.
IsSpace(c) == c = " "

RECURSIVE TrimStart(_)
TrimStart(s) ==
  IF s # <<>> /\ IsSpace(Head(s)) THEN TrimStart(Tail(s)) ELSE s

RECURSIVE TrimEnd(_)
TrimEnd(s) ==
  IF s # <<>> /\ IsSpace(s[Len(s)]) THEN TrimEnd(SubSeq(s, 1, Len(s) - 1)) ELSE s

\* String.prototype.trim
Trim(s) == TrimEnd(TrimStart(s))

\* [^\s@]
PlainChar(c) == ~IsSpace(c) /\ c # "@"

\* [^\s@]+ matches the whole of s[i..j]
PlainRun(s, i, j) == i <= j /\ \A k \in i..j : PlainChar(s[k])

\* The pattern without its dot: /^[^\s@]+@[^\s@]+$/.test(s)
EmailRegexNoDot(s) ==
  \E p \in 1..Len(s) :
    /\ s[p] = "@"
    /\ PlainRun(s, 1, p - 1)
    /\ PlainRun(s, p + 1, Len(s))

\* /^[^\s@]+@[^\s@]+\.[^\s@]+$/.test(s): the @ at p, the literal dot at q.
EmailRegexTest(s) ==
  \E p \in 1..Len(s) : \E q \in 1..Len(s) :
    /\ p < q
    /\ s[p] = "@"
    /\ s[q] = "."
    /\ PlainRun(s, 1, p - 1)
    /\ PlainRun(s, p + 1, q - 1)
    /\ PlainRun(s, q + 1, Len(s))

RECURSIVE StringsOfLen(_)
StringsOfLen(n) ==
  IF n = 0 THEN {<<>>}
  ELSE {Append(s, c) : s \in StringsOfLen(n - 1), c \in Alphabet}

Strings == UNION {StringsOfLen(n) : n \in 0..MaxLen}

\* The values the user types into the form's fields in Spec.
Values == {<<>>, <<" ">>, <<"a">>, <<"a", "@", "a", ".", "a">>}

\* The value form.reset() gives a field (no value attribute in the markup).
DefaultValue == <<>>

\* The inputs of the contact form, in document order: a required text input,
\* a required e-mail input and an optional e-mail input.
FieldOrder == <<"name", "email", "website">>

Fields == {FieldOrder[k] : k \in 1..Len(FieldOrder)}

Markup ==
  [f \in Fields |->
     [type |-> IF f = "name" THEN "text" ELSE "email",
      required |-> f # "website"]]

\* ------------------------------------------------------------------- state

VARIABLES
  field,          \* field[f]: one input of the form and its parent container
  submitButton,   \* [disabled, innerHTML] of button[type="submit"]
  subs,           \* one record per handleContactSubmit call that reached fetch
  fetchCount,     \* number of fetch calls issued
  ev,             \* the event handled last: its kind, and for the settling of
                  \* a request the submission and the outcome (history)
  notifications,  \* every notification presented so far, in order
  now,            \* clock, ms
  probe,          \* SpecValidate: one field and validateField's result on it
  tooltipElement, \* the module-level handle: an index into tips.elems, 0 for null
  tips            \* tooltip elements created, pending tooltip timers, history

vars == <<field, submitButton, subs, fetchCount, ev, notifications, now, probe,
          tooltipElement, tips>>

\* A field as the markup declares it, before any event.
\*   type, required : the input's type and required attribute
\*   value          : field.value
\*   error          : field.classList.contains('error')
\*   errorElems     : innerHTML of the .error-message elements of field.parentNode
\*   styled         : the red border and shadow are set on field.style
\*   last           : result of the most recent validateField call (history)
NewField(t, r) ==
  [type |-> t, required |-> r, value |-> DefaultValue, error |-> FALSE,
   errorElems |-> <<>>, styled |-> FALSE, last |-> "none"]

\* ------------------------------------------------------ field validation

\* removeFieldError leaving the .error-message element in place.
removeFieldErrorKeeps(fld) == [fld EXCEPT !.styled = FALSE]

\* removeFieldError(field): querySelector finds the first .error-message.
removeFieldError(fld) ==
  [fld EXCEPT !.errorElems = IF @ # <<>> THEN Tail(@) ELSE @,
              !.styled = FALSE]

\* showFieldError without the querySelector look-up: one more element a call.
showFieldErrorAppends(fld, message) ==
  [fld EXCEPT !.error = TRUE,
              !.errorElems = Append(@, message),
              !.styled = TRUE]

\* showFieldError(field, message): the container's .error-message element is
\* reused when there is one.
showFieldError(fld, message) ==
  LET withElem == IF fld.errorElems = <<>> THEN <<"">> ELSE fld.errorElems
  IN [fld EXCEPT !.error = TRUE,
                 !.errorElems = [withElem EXCEPT ![1] = message],
                 !.styled = TRUE]

\* validateField reading field.value without trim().
requiredUntrimmed(fld) ==
  LET value == fld.value
      missing == fld.required /\ value = <<>>
      badEmail == fld.type = "email" /\ value # <<>> /\ ~EmailRegexTest(value)
  IN [isValid |-> ~missing /\ ~badEmail,
      errorMessage |-> IF badEmail THEN InvalidFormat
                       ELSE IF missing THEN MissingValue ELSE ""]

\* validateField: the checks and the message, [isValid, errorMessage].
checkField(fld) ==
  LET value == Trim(fld.value)
      missing == fld.required /\ value = <<>>
      badEmail == fld.type = "email" /\ value # <<>> /\ ~EmailRegexTest(value)
  IN [isValid |-> ~missing /\ ~badEmail,
      errorMessage |-> IF badEmail THEN InvalidFormat
                       ELSE IF missing THEN MissingValue ELSE ""]

\* validateField(e) on e.target: the field afterwards.
validateField(fld) ==
  LET cleared == removeFieldError([fld EXCEPT !.error = FALSE])
      res == checkField(fld)
      shown == IF res.isValid THEN cleared
               ELSE showFieldError(cleared, res.errorMessage)
  IN [shown EXCEPT !.last = IF res.isValid THEN "pass" ELSE "fail"]

\* validateForm stopping at the first required field that fails.
RECURSIVE validateFormShortCircuit(_, _)
validateFormShortCircuit(flds, k) ==
  LET f == FieldOrder[k]
  IN IF k > Len(FieldOrder) THEN [field |-> flds, isValid |-> TRUE]
     ELSE IF ~flds[f].required THEN validateFormShortCircuit(flds, k + 1)
     ELSE IF ~checkField(flds[f]).isValid
          THEN [field |-> [flds EXCEPT ![f] = validateField(@)], isValid |-> FALSE]
     ELSE validateFormShortCircuit([flds EXCEPT ![f] = validateField(@)], k + 1)

validateFormStopsEarly(flds) == validateFormShortCircuit(flds, 1)

\* requiredFields.forEach from the k-th field on, in document order.
RECURSIVE validateFormFrom(_, _)
validateFormFrom(flds, k) ==
  LET f == FieldOrder[k]
  IN IF k > Len(FieldOrder) THEN [field |-> flds, isValid |-> TRUE]
     ELSE IF ~flds[f].required THEN validateFormFrom(flds, k + 1)
     ELSE LET rest == validateFormFrom([flds EXCEPT ![f] = validateField(@)], k + 1)
          IN [field |-> rest.field,
              isValid |-> rest.isValid /\ checkField(flds[f]).isValid]

\* validateForm with its result ignored: the fields are marked, true is returned.
validateFormAlwaysPasses(flds) ==
  [field |-> validateFormFrom(flds, 1).field, isValid |-> TRUE]

\* validateForm(form): the fields afterwards and the returned flag.
validateForm(flds) == validateFormFrom(flds, 1)

\* ----------------------------------------------------------- notifications

NotificationTypes == {"success", "error", "info", "warning"}

\* The test made on success instead of error: type === 'success' ? 3000 : 5000
dismissDelayShortForSuccess(type) ==
  IF type = "success" THEN DefaultDelay ELSE ErrorDelay

\* The two delays the wrong way round.
dismissDelaySwapped(type) == IF type = "error" THEN DefaultDelay ELSE ErrorDelay

\* The delay handed to setTimeout by showNotification.
dismissDelay(type) == IF type = "error" THEN ErrorDelay ELSE DefaultDelay

\* showNotification keeping one notification at a time: the ones on show are
\* taken out of the document and their timers cleared before the new one is
\* appended.
showNotificationSingleSlot(ns, message, typeArg, cause, t) ==
  LET type == IF typeArg = "undefined" THEN "info" ELSE typeArg
      gone == [k \in 1..Len(ns) |->
                 IF ns[k].inDoc
                 THEN [ns[k] EXCEPT !.inDoc = FALSE, !.removedAt = t,
                                    !.removals = @ + 1,
                                    !.timer = IF @ = "pending" THEN "cleared" ELSE @]
                 ELSE ns[k]]
  IN
  Append(gone, [type |-> type, message |-> message, cause |-> cause,
                created |-> t, timer |-> "pending",
                timerAt |-> t + dismissDelay(type), tweens |-> <<>>,
                inDoc |-> TRUE, removedAt |-> -1, removals |-> 0,
                clicks |-> 0, dismissals |-> 0])

\* showNotification(message, type) called at time t: the element is appended
\* to document.body and the auto-dismiss timer is armed.
\*   cause     : the submission whose settling presented it, 0 for none (history)
\*   timer     : "pending", "fired" or "cleared"
\*   tweens    : completion times of the dismiss tweens running on the element
\*   inDoc     : notification.parentNode is document.body
\*   removedAt : when removeChild ran, -1 before
\*   removals  : removeChild calls on the element (history)
\*   clicks, dismissals : click events handled, dismissNotification calls (history)
\* A type argument of "undefined" takes the parameter's default, 'info'.
showNotification(ns, message, typeArg, cause, t) ==
  LET type == IF typeArg = "undefined" THEN "info" ELSE typeArg
  IN
  Append(ns, [type |-> type, message |-> message, cause |-> cause,
              created |-> t, timer |-> "pending",
              timerAt |-> t + dismissDelay(type), tweens |-> <<>>,
              inDoc |-> TRUE, removedAt |-> -1, removals |-> 0,
              clicks |-> 0, dismissals |-> 0])

\* --------------------------------------------------------- contact form

\* HTTP statuses the endpoint answers with.
Statuses == {200, 299, 300, 422}

Outcomes ==
  [kind : {"response"}, status : Statuses] \cup [kind : {"rejection"}, status : {0}]

NoOutcome == [kind |-> "none", status |-> 0]

Event(kind) == [kind |-> kind, sub |-> 0, outcome |-> NoOutcome]

\* Response.ok
ResponseOk(outcome) ==
  outcome.kind = "response" /\ outcome.status >= 200 /\ outcome.status <= 299

\* submitButton.disabled = true; submitButton.innerHTML = spinner
beginSubmitting(btn) == [disabled |-> TRUE, innerHTML |-> BusyLabel]

\* The clean-up placed at the end of the try block's success branch.
finallyOnSuccessOnly(btn, originalButtonContent, outcome) ==
  IF ResponseOk(outcome)
  THEN [disabled |-> FALSE, innerHTML |-> originalButtonContent]
  ELSE btn

\* finally { submitButton.disabled = false; innerHTML = originalButtonContent }
finallyBlock(btn, originalButtonContent, outcome) ==
  [disabled |-> FALSE, innerHTML |-> originalButtonContent]

\* form.reset(): every field back to its default value; no event handler of
\* script.js listens to it.
formReset(flds) == [f \in Fields |-> [flds[f] EXCEPT !.value = DefaultValue]]

\* input event on field f after the user changed its value to v.
Input(f, v) ==
  /\ v # field[f].value
  /\ field' = [field EXCEPT ![f] = validateField([@ EXCEPT !.value = v])]
  /\ ev' = Event("field")
  /\ UNCHANGED <<submitButton, subs, fetchCount, notifications, now, probe,
               tooltipElement, tips>>

\* blur event on field f.
Blur(f) ==
  /\ field' = [field EXCEPT ![f] = validateField(@)]
  /\ ev' = Event("field")
  /\ UNCHANGED <<submitButton, subs, fetchCount, notifications, now, probe,
               tooltipElement, tips>>

\* handleContactSubmit up to the await: validation, then the button is set
\* busy and fetch is called.  atFetch is the button as it is when fetch is
\* called (history).
HandleContactSubmit ==
  LET originalButtonContent == submitButton.innerHTML
      v == validateForm(field)
      busy == beginSubmitting(submitButton)
  IN /\ field' = v.field
     /\ ev' = Event("submit")
     /\ IF ~v.isValid
        THEN UNCHANGED <<submitButton, subs, fetchCount>>
        ELSE /\ Len(subs) < MaxSubmits
             /\ submitButton' = busy
             /\ subs' = Append(subs, [settled |-> FALSE,
                                      original |-> originalButtonContent,
                                      atFetch |-> busy])
             /\ fetchCount' = fetchCount + 1
     /\ UNCHANGED <<notifications, now, probe,
               tooltipElement, tips>>

\* The try block without its else: the error is presented after a 2xx too.
afterAwaitBoth(flds, ns, i, outcome, t) ==
  [field |-> IF ResponseOk(outcome) THEN formReset(flds) ELSE flds,
   notifications |->
     IF ResponseOk(outcome)
     THEN showNotification(
            showNotification(ns, SuccessText, "success", i, t),
            ServerRejectedText, "error", i, t)
     ELSE IF outcome.kind = "response"
     THEN showNotification(ns, ServerRejectedText, "error", i, t)
     ELSE showNotification(ns, NetworkFailureText, "error", i, t)]

\* form.reset() after every outcome.
afterAwaitResetsAlways(flds, ns, i, outcome, t) ==
  [field |-> formReset(flds),
   notifications |->
     IF ResponseOk(outcome)
     THEN showNotification(ns, SuccessText, "success", i, t)
     ELSE IF outcome.kind = "response"
     THEN showNotification(ns, ServerRejectedText, "error", i, t)
     ELSE showNotification(ns, NetworkFailureText, "error", i, t)]

\* The catch block presenting the server-rejected text.
afterAwaitSameText(flds, ns, i, outcome, t) ==
  [field |-> IF ResponseOk(outcome) THEN formReset(flds) ELSE flds,
   notifications |->
     IF ResponseOk(outcome)
     THEN showNotification(ns, SuccessText, "success", i, t)
     ELSE showNotification(ns, ServerRejectedText, "error", i, t)]

\* The try and catch blocks after the await: what is presented, and the reset.
afterAwait(flds, ns, i, outcome, t) ==
  [field |-> IF ResponseOk(outcome) THEN formReset(flds) ELSE flds,
   notifications |->
     IF ResponseOk(outcome)
     THEN showNotification(ns, SuccessText, "success", i, t)
     ELSE IF outcome.kind = "response"
     THEN showNotification(ns, ServerRejectedText, "error", i, t)
     ELSE showNotification(ns, NetworkFailureText, "error", i, t)]

\* handleContactSubmit from the await on, for submission i whose request
\* settles with outcome: try or catch, then finally, in one turn.
Settle(i, outcome) ==
  LET r == afterAwait(field, notifications, i, outcome, now)
  IN /\ ~subs[i].settled
     /\ field' = r.field
     /\ notifications' = r.notifications
     /\ submitButton' = finallyBlock(submitButton, subs[i].original, outcome)
     /\ subs' = [subs EXCEPT ![i].settled = TRUE]
     /\ ev' = [kind |-> "settle", sub |-> i, outcome |-> outcome]
     /\ UNCHANGED <<fetchCount, now, probe,
               tooltipElement, tips>>

NoProbe == NewField("text", FALSE)

\* let tooltipElement = null: no element, no timer.
\*   elems  : the tooltip elements created, each with inDoc (parentNode is
\*            document.body), opacity, and hidden (hideTooltip acted on it, history)
\*   timers : pending setTimeout callbacks in the order they were registered,
\*            each with its kind and the ms left before it is due
\*   threw  : a timer callback read a property of null (history)
\*   hides  : hideTooltip calls made by event handlers (history)
NoTips == [elems |-> <<>>, timers |-> <<>>, threw |-> FALSE, hides |-> 0]

\* The page after load: the markup's fields, untouched.
InitPage ==
  /\ field = [f \in Fields |-> NewField(Markup[f].type, Markup[f].required)]
  /\ submitButton = [disabled |-> FALSE, innerHTML |-> IdleLabel]
  /\ subs = <<>>
  /\ fetchCount = 0
  /\ ev = Event("load")
  /\ notifications = <<>>
  /\ now = 0
  /\ tooltipElement = 0
  /\ tips = NoTips

Init == InitPage /\ probe = NoProbe

Next ==
  \/ \E f \in Fields, v \in Values : Input(f, v)
  \/ \E f \in Fields : Blur(f)
  \/ HandleContactSubmit
  \/ \E i \in 1..Len(subs), outcome \in Outcomes : Settle(i, outcome)

Spec == Init /\ [][Next]_vars

\* ------------------------------------------------- validateField on its own

\* A field of any kind holding any string, not validated yet.
InitValidate ==
  /\ InitPage
  /\ probe \in {[NewField(t, r) EXCEPT !.value = v] :
                  t \in {"text", "email"}, r \in BOOLEAN, v \in Strings}

\* The first input or blur event on the field.
ValidateProbe ==
  /\ probe.last = "none"
  /\ probe' = validateField(probe)
  /\ UNCHANGED <<field, submitButton, subs, fetchCount, ev, notifications, now,
               tooltipElement, tips>>

NextValidate == ValidateProbe

SpecValidate == InitValidate /\ [][NextValidate]_vars

\* ------------------------------------------ notifications and their timers

\* The other callers of showNotification: downloadCV and the project links.
Callers ==
  {<<"CV download started! Check your downloads folder.", "success">>,
   <<"Download failed. Please contact me directly for my CV.", "error">>,
   <<"Project link coming soon!", "info">>}

\* dismissNotification(notification) at time t: a gsap tween of 0.4 s is
\* started on the element; its onComplete runs when it ends.
dismissNotification(n, t) ==
  [n EXCEPT !.tweens = Append(@, t + DismissDuration), !.dismissals = @ + 1]

\* onComplete without the parentNode test: removeChild on every completion.
onCompleteUnguarded(n, t) ==
  [n EXCEPT !.inDoc = FALSE, !.removedAt = t, !.removals = @ + 1]

\* onComplete of a dismiss tween at time t.
onComplete(n, t) ==
  IF n.inDoc
  THEN [n EXCEPT !.inDoc = FALSE, !.removedAt = t, !.removals = @ + 1]
  ELSE n

RECURSIVE TotalClicks(_)
TotalClicks(ns) ==
  IF ns = <<>> THEN 0 ELSE Head(ns).clicks + TotalClicks(Tail(ns))

\* A caller presents a notification.
Present(c) ==
  /\ Len(notifications) < MaxNotifs
  /\ notifications' = showNotification(notifications, c[1], c[2], 0, now)
  /\ UNCHANGED <<field, submitButton, subs, fetchCount, ev, now, probe,
               tooltipElement, tips>>

\* The auto-dismiss timer of notification k expires.
TimerFire(k) ==
  /\ notifications[k].timer = "pending"
  /\ notifications[k].timerAt = now
  /\ notifications' =
       [notifications EXCEPT
          ![k] = dismissNotification([@ EXCEPT !.timer = "fired"], now)]
  /\ UNCHANGED <<field, submitButton, subs, fetchCount, ev, now, probe,
               tooltipElement, tips>>

\* The click listener of notification k: clearTimeout, then dismiss.
Click(k) ==
  /\ notifications[k].inDoc
  /\ TotalClicks(notifications) < MaxClicks
  /\ notifications' =
       [notifications EXCEPT
          ![k] = dismissNotification(
                   [@ EXCEPT !.timer = IF @ = "pending" THEN "cleared" ELSE @,
                             !.clicks = @ + 1], now)]
  /\ UNCHANGED <<field, submitButton, subs, fetchCount, ev, now, probe,
               tooltipElement, tips>>

\* The oldest dismiss tween of notification k ends.
TweenComplete(k) ==
  /\ notifications[k].tweens # <<>>
  /\ Head(notifications[k].tweens) = now
  /\ notifications' =
       [notifications EXCEPT
          ![k] = onComplete([@ EXCEPT !.tweens = Tail(@)], now)]
  /\ UNCHANGED <<field, submitButton, subs, fetchCount, ev, now, probe,
               tooltipElement, tips>>

\* The times at which a timer or a tween is due.
Deadlines ==
  {notifications[k].timerAt :
     k \in {j \in 1..Len(notifications) : notifications[j].timer = "pending"}}
  \cup {notifications[k].tweens[1] :
     k \in {j \in 1..Len(notifications) : notifications[j].tweens # <<>>}}

Min(S) == CHOOSE x \in S : \A y \in S : x <= y

\* Time passes, up to the next deadline: timers and tweens run when due.
Tick ==
  LET next == Min(Deadlines \cup {((now \div Quantum) + 1) * Quantum})
  IN /\ next > now
     /\ next <= MaxTime
     /\ now' = next
     /\ UNCHANGED <<field, submitButton, subs, fetchCount, ev, notifications, probe,
               tooltipElement, tips>>

NextNotif ==
  \/ \E c \in Callers : Present(c)
  \/ \E k \in 1..Len(notifications) : TimerFire(k)
  \/ \E k \in 1..Len(notifications) : Click(k)
  \/ \E k \in 1..Len(notifications) : TweenComplete(k)
  \/ Tick

SpecNotif == Init /\ [][NextNotif]_vars

\* ------------------------------------------- showNotification, any severity

\* What a caller may pass as type: a severity, or nothing.
TypeArgs == NotificationTypes \cup {"undefined"}

\* showNotification(message, typeArg); the message names the argument.
PresentTyped(typeArg) ==
  /\ Len(notifications) < MaxTyped
  /\ notifications' = showNotification(notifications, typeArg, typeArg, 0, now)
  /\ UNCHANGED <<field, submitButton, subs, fetchCount, ev, now, probe,
               tooltipElement, tips>>

NextDelay ==
  \/ \E typeArg \in TypeArgs : PresentTyped(typeArg)
  \/ \E k \in 1..Len(notifications) : TimerFire(k)
  \/ \E k \in 1..Len(notifications) : Click(k)
  \/ \E k \in 1..Len(notifications) : TweenComplete(k)
  \/ Tick

SpecDelay == Init /\ [][NextDelay]_vars

\* ---------------------------------------------------------------- tooltips

\* What getAttribute('title') hands to showTooltip: nothing, or a title.
TooltipTexts == {"", "React"}

\* hideTooltip() with the handle at h: the element it points to is faded out
\* and a removal timer is registered; nothing when the handle is null.
hideTooltip(h, t) ==
  IF h # 0
  THEN [t EXCEPT !.elems[h].opacity = "0",
                 !.elems[h].hidden = TRUE,
                 !.timers = Append(@, [kind |-> "remove", left |-> RemoveDelay])]
  ELSE t

\* showTooltip(element, text), called by an icon's mouseenter: hideTooltip(),
\* then a new element is created, pointed to by the handle and appended to
\* document.body, and the reveal timer is registered.
ShowTooltip(text) ==
  /\ IF text = ""
     THEN UNCHANGED <<tooltipElement, tips>>
     ELSE LET h == hideTooltip(tooltipElement, tips)
          IN /\ Len(tips.elems) < MaxTips
             /\ tooltipElement' = Len(h.elems) + 1
             /\ tips' = [h EXCEPT
                  !.elems = Append(@, [inDoc |-> TRUE, opacity |-> "0",
                                       hidden |-> FALSE]),
                  !.timers = Append(@, [kind |-> "reveal", left |-> RevealDelay])]
  /\ UNCHANGED <<field, submitButton, subs, fetchCount, ev, notifications, now,
               probe>>

\* hideTooltip() called by an icon's mouseleave, the Escape key or a resize.
HideTooltip ==
  /\ tips.hides < MaxHides
  /\ tips' = [hideTooltip(tooltipElement, tips) EXCEPT !.hides = @ + 1]
  /\ UNCHANGED <<field, submitButton, subs, fetchCount, ev, notifications, now,
               probe, tooltipElement>>

\* Timer k is the one the event loop runs next: it is due, and no timer
\* registered before it is.
RunsNext(k) ==
  /\ tips.timers[k].left = 0
  /\ \A j \in 1..(k - 1) : tips.timers[j].left # 0

\* The timers without the k-th.
WithoutTimer(timers, k) ==
  SubSeq(timers, 1, k - 1) \o SubSeq(timers, k + 1, Len(timers))

\* The reveal callback: tooltipElement.style.opacity = '1', a TypeError when
\* the handle is null.
RevealCallback(k) ==
  /\ RunsNext(k)
  /\ tips.timers[k].kind = "reveal"
  /\ tips' = [tips EXCEPT
       !.timers = WithoutTimer(@, k),
       !.threw = @ \/ tooltipElement = 0,
       !.elems = IF tooltipElement # 0
                 THEN [@ EXCEPT ![tooltipElement].opacity = "1"]
                 ELSE @]
  /\ UNCHANGED <<field, submitButton, subs, fetchCount, ev, notifications, now,
               probe, tooltipElement>>

\* The removal callback: the element the handle points to now is taken out of
\* the document if it is in it, and the handle is set to null.
RemovalCallback(k) ==
  /\ RunsNext(k)
  /\ tips.timers[k].kind = "remove"
  /\ tips' = [tips EXCEPT
       !.timers = WithoutTimer(@, k),
       !.elems = IF tooltipElement # 0 /\ @[tooltipElement].inDoc
                 THEN [@ EXCEPT ![tooltipElement].inDoc = FALSE]
                 ELSE @]
  /\ tooltipElement' = 0
  /\ UNCHANGED <<field, submitButton, subs, fetchCount, ev, notifications, now,
               probe>>

\* The ms before the next tooltip timer is due.
NextDue(timers) == Min({timers[k].left : k \in 1..Len(timers)})

\* Time passes, to the next timer's due time or by TipStep if that is sooner;
\* a timer that is due runs before more time passes.
TickTooltip ==
  /\ tips.timers # <<>>
  /\ NextDue(tips.timers) > 0
  /\ \E d \in {NextDue(tips.timers), TipStep} :
       /\ d <= NextDue(tips.timers)
       /\ tips' = [tips EXCEPT
            !.timers = [k \in 1..Len(@) |-> [@[k] EXCEPT !.left = @ - d]]]
  /\ UNCHANGED <<field, submitButton, subs, fetchCount, ev, notifications, now,
               probe, tooltipElement>>

\* What the event loop does on its own: due callbacks run, time passes.
TimerStep ==
  \/ \E k \in 1..Len(tips.timers) : RevealCallback(k)
  \/ \E k \in 1..Len(tips.timers) : RemovalCallback(k)
  \/ TickTooltip

NextTooltip ==
  \/ \E text \in TooltipTexts : ShowTooltip(text)
  \/ HideTooltip
  \/ \E k \in 1..Len(tips.timers) : RevealCallback(k)
  \/ \E k \in 1..Len(tips.timers) : RemovalCallback(k)
  \/ TickTooltip

\* Time does not stop and a due callback is run: weak fairness of the event
\* loop's own steps.
SpecTooltip == Init /\ [][NextTooltip]_vars /\ WF_vars(TimerStep)

\* ------------------------------------------------------------------ claims

\* The notifications presented when submission i settled.
PresentedFor(i) ==
  {k \in 1..Len(notifications) : notifications[k].cause = i}

\* The form passes validation: every required field holds a valid value.
FormPasses(flds) ==
  \A f \in Fields : flds[f].required => checkField(flds[f]).isValid

\* The element a field's parent shows as its error message, if any.
HasErrorMessage(fld) ==
  \E k \in 1..Len(fld.errorElems) : fld.errorElems[k] # ""

\* C1: a submission that passed validation has the submit control disabled
\* and showing the busy indicator when its request is issued, and when the
\* request settles, whatever the outcome, the control is enabled and shows
\* the content it had when the submission was handled.
C1_CleanupOnSettle ==
  /\ \A i \in 1..Len(subs) :
       subs[i].atFetch.disabled /\ subs[i].atFetch.innerHTML = BusyLabel
  /\ ev.kind = "submit" /\ FormPasses(field) =>
       submitButton.disabled /\ submitButton.innerHTML = BusyLabel
  /\ ev.kind = "settle" =>
       /\ ~submitButton.disabled
       /\ submitButton.innerHTML = subs[ev.sub].original

\* A request was rejected while no other was in flight: the control is
\* enabled and shows the idle label again.
C1_Witness ==
  /\ ev.kind = "settle"
  /\ ev.outcome.kind = "rejection"
  /\ subs[ev.sub].original = IdleLabel
  /\ ~submitButton.disabled
  /\ submitButton.innerHTML = IdleLabel

\* C2: a submit event issues exactly one request when every required field
\* passes and none (no notification, the submit control as it was) when one
\* fails; nothing else issues a request, so the requests never outnumber the
\* submit events that passed validation.
C2_OneRequestPerValidSubmit ==
  /\ [](fetchCount <= Len(subs))
  /\ [][/\ ev'.kind = "submit" /\ FormPasses(field) =>
             /\ fetchCount' = fetchCount + 1
             /\ Len(subs') = Len(subs) + 1
        /\ ev'.kind = "submit" /\ ~FormPasses(field) =>
             /\ fetchCount' = fetchCount
             /\ subs' = subs
             /\ notifications' = notifications
             /\ submitButton' = submitButton
        /\ ev'.kind # "submit" => fetchCount' = fetchCount]_vars

\* A submit event that failed validation after one that passed and whose
\* request was answered: still one request, the control enabled.
C2_Witness ==
  /\ ev.kind = "submit"
  /\ ~FormPasses(field)
  /\ fetchCount = 1
  /\ Len(subs) = 1
  /\ ~submitButton.disabled

\* C3: when a request settles with a 2xx response every field holds its
\* default value and exactly one notification was presented for the
\* submission, of severity success; every settled submission has exactly one
\* notification and an unsettled one has none.
C3_SuccessResetsAndNotifiesOnce ==
  /\ \A i \in 1..Len(subs) :
       Cardinality(PresentedFor(i)) = IF subs[i].settled THEN 1 ELSE 0
  /\ ev.kind = "settle" /\ ev.outcome.kind = "response"
       /\ ev.outcome.status \in 200..299 =>
       /\ \A f \in Fields : field[f].value = DefaultValue
       /\ \A k \in PresentedFor(ev.sub) :
            /\ notifications[k].type = "success"
            /\ notifications[k].message = SuccessText

\* A 299 response: the required fields are empty although their last
\* validation passed, and the one notification is the success one.
C3_Witness ==
  /\ ev.kind = "settle"
  /\ ev.outcome = [kind |-> "response", status |-> 299]
  /\ \A f \in Fields : field[f].value = DefaultValue
  /\ field["email"].last = "pass"
  /\ Cardinality(PresentedFor(ev.sub)) = 1
  /\ notifications[Len(notifications)].type = "success"

\* C4: when a request settles with a response outside 200..299 exactly one
\* notification is presented, an error with the server-rejected text, the
\* fields are left as they were and the submit control is enabled.
C4_ServerRejected ==
  [][ev'.kind = "settle" /\ ev'.outcome.kind = "response"
       /\ ev'.outcome.status \notin 200..299 =>
       /\ Len(notifications') = Len(notifications) + 1
       /\ SubSeq(notifications', 1, Len(notifications)) = notifications
       /\ notifications'[Len(notifications')].type = "error"
       /\ notifications'[Len(notifications')].message = ServerRejectedText
       /\ notifications'[Len(notifications')].cause = ev'.sub
       /\ field' = field
       /\ ~submitButton'.disabled]_vars

\* A 422 response: the fields still hold what was submitted.
C4_Witness ==
  /\ ev.kind = "settle"
  /\ ev.outcome = [kind |-> "response", status |-> 422]
  /\ field["email"].value = <<"a", "@", "a", ".", "a">>
  /\ notifications[Len(notifications)].message = ServerRejectedText
  /\ ~submitButton.disabled

\* C5: when a request rejects, the step that handles the rejection presents
\* exactly one notification, an error whose text is not the server-rejected
\* text, leaves the fields as they were and enables the submit control.
C5_NetworkFailure ==
  [][ev'.kind = "settle" /\ ev'.outcome.kind = "rejection" =>
       /\ Len(notifications') = Len(notifications) + 1
       /\ SubSeq(notifications', 1, Len(notifications)) = notifications
       /\ notifications'[Len(notifications')].type = "error"
       /\ notifications'[Len(notifications')].message # ServerRejectedText
       /\ notifications'[Len(notifications')].message = NetworkFailureText
       /\ notifications'[Len(notifications')].cause = ev'.sub
       /\ field' = field
       /\ ~submitButton'.disabled]_vars

\* A rejected request: the network text is shown, the fields are kept.
C5_Witness ==
  /\ ev.kind = "settle"
  /\ ev.outcome.kind = "rejection"
  /\ field["email"].value = <<"a", "@", "a", ".", "a">>
  /\ notifications[Len(notifications)].message = NetworkFailureText
  /\ ~submitButton.disabled

\* C6: a submit event validates every required field, also after one has
\* failed: afterwards each required field is marked failed, with its error
\* shown, exactly when its value is invalid, the fields that are not required
\* are untouched, and the request is issued (validateForm returned true)
\* exactly when every required field passed.
C6_ValidateFormNoShortCircuit ==
  [][ev'.kind = "submit" =>
       /\ \A f \in Fields :
            IF field[f].required
            THEN /\ field'[f].last =
                      IF checkField(field[f]).isValid THEN "pass" ELSE "fail"
                 /\ field'[f].error = ~checkField(field[f]).isValid
                 /\ HasErrorMessage(field'[f]) = ~checkField(field[f]).isValid
            ELSE field'[f] = field[f]
       /\ (fetchCount' = fetchCount + 1) =
            (\A f \in Fields : field[f].required => checkField(field[f]).isValid)
       /\ fetchCount' \in {fetchCount, fetchCount + 1}]_vars

\* The first submit event on the untouched form: both required fields are
\* marked at once, the optional one was not validated.
C6_Witness ==
  /\ ev.kind = "submit"
  /\ field["name"].last = "fail" /\ HasErrorMessage(field["name"])
  /\ field["email"].last = "fail" /\ HasErrorMessage(field["email"])
  /\ field["website"].last = "none"
  /\ fetchCount = 0

\* C7: in every reachable state, a field shows a non-empty error message
\* exactly when its most recent validation failed.
C7_ErrorIffLastValidationFailed ==
  \A f \in Fields : HasErrorMessage(field[f]) <=> field[f].last = "fail"

\* After a successful submission reset the form: the optional field is empty,
\* its last validation failed and its message is still shown, while a field
\* that failed earlier and passed since shows none.
C7_Witness ==
  /\ field["website"].value = DefaultValue
  /\ field["website"].last = "fail"
  /\ field["website"].errorElems = <<InvalidFormat>>
  /\ field["name"].last = "pass"
  /\ ~HasErrorMessage(field["name"])
  /\ \E i \in 1..Len(subs) : subs[i].settled

\* The string is white space throughout: nothing is left of it after trimming.
AllSpace(v) == \A k \in 1..Len(v) : IsSpace(v[k])

\* The string holds no @, or no dot after its last @.
NoAtOrNoDotAfterAt(v) ==
  \/ \A k \in 1..Len(v) : v[k] # "@"
  \/ \E p \in 1..Len(v) :
       /\ v[p] = "@"
       /\ \A k \in (p + 1)..Len(v) : v[k] # "@" /\ v[k] # "."

\* One or more characters, none of them white space or @.
IsPlain(v) == v # <<>> /\ \A k \in 1..Len(v) : v[k] \notin {" ", "@"}

\* local-part@domain.tld
IsLocalAtDomainTld(v) ==
  \E i \in 1..Len(v), j \in 1..Len(v) :
    /\ i < j
    /\ v = SubSeq(v, 1, i - 1) \o <<"@">> \o SubSeq(v, i + 1, j - 1)
             \o <<".">> \o SubSeq(v, j + 1, Len(v))
    /\ IsPlain(SubSeq(v, 1, i - 1))
    /\ IsPlain(SubSeq(v, i + 1, j - 1))
    /\ IsPlain(SubSeq(v, j + 1, Len(v)))

\* C8 as stated: an e-mail field holding any non-empty value with no @, or no
\* dot after the @, is reported invalid with the InvalidFormat message, and a
\* value of the shape local-part@domain.tld is reported valid.
C8_AsStated ==
  probe.last # "none" /\ probe.type = "email" =>
    /\ probe.value # <<>> /\ NoAtOrNoDotAfterAt(probe.value) =>
         probe.last = "fail" /\ probe.errorElems = <<InvalidFormat>>
    /\ IsLocalAtDomainTld(probe.value) => probe.last = "pass"

\* C8, amended: an e-mail field holding a value that is not empty after
\* trimming white space, with no @ or no dot after the @, is reported invalid
\* with the InvalidFormat message, and a value of the shape
\* local-part@domain.tld is reported valid.
C8_EmailShape ==
  probe.last # "none" /\ probe.type = "email" =>
    /\ ~AllSpace(probe.value) /\ NoAtOrNoDotAfterAt(probe.value) =>
         /\ probe.last = "fail"
         /\ probe.error
         /\ probe.errorElems = <<InvalidFormat>>
    /\ IsLocalAtDomainTld(probe.value) =>
         probe.last = "pass" /\ probe.errorElems = <<>>

\* A required e-mail field holding "a@a" was validated and reported
\* InvalidFormat.
C8_Witness ==
  /\ probe.type = "email"
  /\ probe.required
  /\ probe.value = <<"a", "@", "a">>
  /\ probe.last = "fail"
  /\ probe.errorElems = <<InvalidFormat>>

\* C9: validateField reports MissingValue exactly when the field is required
\* and its value is empty after trimming; a field that is not required and
\* whose trimmed value is empty is valid, whatever its kind.
C9_MissingValue ==
  probe.last # "none" =>
    /\ (probe.last = "fail" /\ probe.errorElems = <<MissingValue>>)
         <=> (probe.required /\ AllSpace(probe.value))
    /\ ~probe.required /\ AllSpace(probe.value) =>
         probe.last = "pass" /\ probe.errorElems = <<>>

\* A required e-mail field holding two blanks was validated and reported
\* MissingValue.
C9_Witness ==
  /\ probe.type = "email"
  /\ probe.required
  /\ probe.value = <<" ", " ">>
  /\ probe.last = "fail"
  /\ probe.errorElems = <<MissingValue>>

\* The delay the claim gives a severity.
ClaimedDelay(type) == IF type = "error" THEN 5000 ELSE 3000

\* C10 as stated: a success or error notification that was never clicked is
\* removed from the document 3000 ms (success) or 5000 ms (error) after it
\* was created.
C10_AsStated ==
  \A k \in 1..Len(notifications) :
    LET n == notifications[k]
    IN n.type \in {"success", "error"} /\ n.clicks = 0 =>
         /\ ~n.inDoc => n.removedAt = n.created + ClaimedDelay(n.type)
         /\ now > n.created + ClaimedDelay(n.type) => ~n.inDoc

\* C10, amended: for a success or error notification that was never clicked
\* the dismiss transition starts 3000 ms (success) or 5000 ms (error) after
\* it was created, and the element is removed when the 400 ms transition
\* ends, 3400 ms or 5400 ms after it was created, not before.
C10_AutoDismiss ==
  \A k \in 1..Len(notifications) :
    LET n == notifications[k]
        started == n.created + ClaimedDelay(n.type)
    IN n.type \in {"success", "error"} /\ n.clicks = 0 =>
         /\ n.dismissals > 0 <=> n.timer = "fired"
         /\ n.timer = "fired" => now >= started
         /\ now > started => n.timer = "fired"
         /\ n.tweens # <<>> => n.tweens = <<started + 400>>
         /\ ~n.inDoc => n.removedAt = started + 400
         /\ now > started + 400 => ~n.inDoc

\* A success and an error notification, neither ever clicked, both removed.
C10_Witness ==
  \E j \in 1..Len(notifications), k \in 1..Len(notifications) :
    /\ notifications[j].type = "success"
    /\ notifications[j].clicks = 0
    /\ notifications[j].removedAt = notifications[j].created + 3400
    /\ notifications[k].type = "error"
    /\ notifications[k].clicks = 0
    /\ notifications[k].removedAt = notifications[k].created + 5400

\* C11 as stated: for each notification only one of the timer and the clicks
\* starts the dismiss transition, so it is started at most once, and a timer
\* that a click has cleared never fires afterwards.
C11_AsStated ==
  /\ [](\A k \in 1..Len(notifications) : notifications[k].dismissals <= 1)
  /\ [][\A k \in 1..Len(notifications) :
          notifications[k].timer = "cleared" =>
            notifications'[k].timer = "cleared"]_vars

\* C12: a notification's element is in the document until a dismiss tween
\* started on it has completed, it is removed at most once however many
\* tweens complete, and a completion that finds it detached changes nothing
\* but the list of running tweens.
C12_RemovalIdempotent ==
  /\ [](\A k \in 1..Len(notifications) :
          LET n == notifications[k]
          IN /\ n.removals <= 1
             /\ n.inDoc <=> n.removals = 0
             /\ ~n.inDoc => n.dismissals - Len(n.tweens) >= 1)
  /\ [][\A k \in 1..Len(notifications) :
          ~notifications[k].inDoc =>
            notifications'[k] =
              [notifications[k] EXCEPT !.tweens = notifications'[k].tweens]]_vars

\* Two dismiss tweens were started on one notification and both have
\* completed: the element was removed once.
C12_Witness ==
  \E k \in 1..Len(notifications) :
    /\ notifications[k].dismissals = 2
    /\ notifications[k].tweens = <<>>
    /\ ~notifications[k].inDoc
    /\ notifications[k].removals = 1

\* C13: the auto-dismiss timer of a notification is set 5000 ms after its
\* creation when the severity passed is error and 3000 ms after it for
\* success, info, warning and for no severity at all (which is shown as
\* info), and it fires then and not before.
C13_DelayBySeverity ==
  \A k \in 1..Len(notifications) :
    LET n == notifications[k]
        delay == IF n.message = "error" THEN 5000 ELSE 3000
    IN /\ n.type = IF n.message = "undefined" THEN "info" ELSE n.message
       /\ n.timerAt = n.created + delay
       /\ n.timer = "fired" => now >= n.created + delay
       /\ n.timer = "pending" => now <= n.created + delay

\* A notification presented without a severity and never clicked: its timer
\* fired after 3000 ms.
C13_Witness ==
  \E k \in 1..Len(notifications) :
    /\ notifications[k].message = "undefined"
    /\ notifications[k].type = "info"
    /\ notifications[k].clicks = 0
    /\ notifications[k].timer = "fired"
    /\ notifications[k].tweens = <<notifications[k].created + 3400>>

\* C14: every step (a notification presented, clicked, its timer firing, a
\* tween of it completing) changes at most one notification and leaves the
\* others, their elements, tweens and timers, as they were; a notification
\* presented is added after the existing ones, which stay.
C14_Independent ==
  [][/\ Len(notifications') >= Len(notifications)
     /\ Cardinality({k \in 1..Len(notifications) :
                       notifications'[k] # notifications[k]}) <= 1
     /\ Len(notifications') > Len(notifications) =>
          /\ Len(notifications') = Len(notifications) + 1
          /\ \A k \in 1..Len(notifications) :
               notifications'[k] = notifications[k]]_vars

\* Two notifications in the document at once: the first was clicked and is
\* in its dismiss transition, the second, presented after it, is untouched
\* with its timer pending.
C14_Witness ==
  /\ Len(notifications) >= 2
  /\ notifications[1].inDoc
  /\ notifications[1].clicks = 1
  /\ notifications[1].tweens # <<>>
  /\ notifications[2].inDoc
  /\ notifications[2].created > notifications[1].created
  /\ notifications[2].timer = "pending"
  /\ notifications[2].dismissals = 0

\* C15: a field's container never holds more than one error-message element,
\* neither after another validation nor after showFieldError is called on a
\* field that already shows an error (the element is reused), and
\* removeFieldError on a field without an error element changes nothing.
C15_AtMostOneErrorElement ==
  \A f \in Fields :
    /\ Len(field[f].errorElems) <= 1
    /\ Len(validateField(field[f]).errorElems) <= 1
    /\ \A message \in {MissingValue, InvalidFormat} :
         Len(showFieldError(field[f], message).errorElems) <= 1
    /\ field[f].errorElems = <<>> => removeFieldError(field[f]) = field[f]

\* The e-mail field failed on input and again on submit and holds one error
\* element, while the name field, valid, holds none.
C15_Witness ==
  /\ ev.kind = "submit"
  /\ field["email"].value = <<"a">>
  /\ field["email"].errorElems = <<InvalidFormat>>
  /\ field["name"].last = "pass"
  /\ field["name"].errorElems = <<>>

\* C16: when a submit event was handled while an earlier request was in
\* flight (the later submission then captured the busy label as its original
\* content), the control is enabled with the idle label once every request
\* has settled, and it is disabled for as long as a request is in flight.
C16_AsStated ==
  (\E i \in 1..Len(subs) : subs[i].original = BusyLabel) =>
    /\ (\A i \in 1..Len(subs) : subs[i].settled) =>
         /\ ~submitButton.disabled
         /\ submitButton.innerHTML = IdleLabel
    /\ (\E i \in 1..Len(subs) : ~subs[i].settled) => submitButton.disabled

\* C17: whatever the interleaving of showTooltip, hideTooltip and their
\* timers, at most one tooltip element is in the document at any time, no
\* timer callback reads a property of the handle while it is null, and every
\* tooltip element that was hidden is eventually out of the document.
C17_AsStated ==
  /\ [](Cardinality({e \in 1..Len(tips.elems) : tips.elems[e].inDoc}) <= 1)
  /\ [](~tips.threw)
  /\ \A e \in 1..MaxTips :
       (e <= Len(tips.elems) /\ tips.elems[e].hidden)
         ~> (e <= Len(tips.elems) /\ ~tips.elems[e].inDoc)

====
